---- MODULE Spec2Model ----
(***************************************************************************)
(* Model of m3u8-download (src/src/main.rs): the manifest parser `analyze`  *)
(* and the sequential fetch / decrypt / write pipeline `down_load`.         *)
(*                                                                         *)
(* Text is modelled by TLA+ strings (character level: Len, SubSeq, \o),     *)
(* byte buffers by sequences of integers in 0..255, Option<T> by a         *)
(* sequence of length 0 (None) or 1 (Some), HashMap<String,String> by a    *)
(* function whose domain is the set of keys present.                       *)
(***************************************************************************)
EXTENDS Integers, Sequences, FiniteSets, TLC

VARIABLES
    m3u8_value,   \* body of the manifest resource (text handed to analyze)
    suffix,       \* M3u8Command.suffix
    pc,           \* position of the single flow of control
    fail,         \* which step ended the run abnormally ("none" while running / on Ok)
    ext,          \* the Ext directive set
    lines,        \* the pieces of m3u8_value.split("\n")
    line_no,      \* number of those lines the for_each has consumed
    disk,         \* content of the file at the output path
    created,      \* TRUE once File::create returned
    key,          \* Option<bytes>: key.as_bytes() once the key was read
    key_body,     \* Option<bytes>: body of the key resource as served
    key_status,   \* Option<status>: status of the key response
    count,        \* 1-based position of the loop over uri_list
    buf,          \* body of the segment fetched last
    result,       \* output of decrypt for the segment fetched last
    bodies,       \* bodies of the segment fetches completed so far, in order
    statuses,     \* statuses of those responses, in order
    results,      \* outputs of the decrypt calls that returned so far, in order
    written,      \* list positions whose write_all has completed, in order
    issued,       \* every request issued so far, in order
    outstanding   \* requests issued and not yet answered

vars == <<m3u8_value, suffix, pc, fail, ext, lines, line_no, disk, created, key,
          key_body, key_status, count, buf, result, bodies, statuses, results,
          written, issued, outstanding>>

-----------------------------------------------------------------------------
(* Option<T> *)

None == << >>

Some(v) == <<v>>

IsSome(o) == Len(o) = 1

Unwrap(o) == o[1]

-----------------------------------------------------------------------------
(* Program constants, src/src/main.rs:10-24 *)

EXT_X_VERSION == "#EXT-X-VERSION:"

EXT_X_TARGETDURATION == "#EXT-X-TARGETDURATION:"

EXT_X_PLAYLIST_TYPE == "#EXT-X-PLAYLIST-TYPE:"

EXT_X_MEDIA_SEQUENCE == "#EXT-X-MEDIA-SEQUENCE:"

EXT_X_KEY == "#EXT-X-KEY:"

METHOD == "METHOD="

URL == "URI="

BlockLen == 16

KeyLen == 16

IV == [i \in 1..BlockLen |-> 0]

-----------------------------------------------------------------------------
(* str primitives of the standard library, character by character *)

\* str::starts_with
StartsWith(s, p) ==
    /\ Len(p) <= Len(s)
    /\ SubSeq(s, 1, Len(p)) = p

\* str::find: index of the first occurrence of p in s, 0 when there is none
RECURSIVE FindFrom(_, _, _)
FindFrom(s, p, i) ==
    IF i + Len(p) - 1 > Len(s) THEN 0
    ELSE IF SubSeq(s, i, i + Len(p) - 1) = p THEN i
    ELSE FindFrom(s, p, i + 1)

Find(s, p) == FindFrom(s, p, 1)

\* str::contains
Contains(s, p) == Len(p) = 0 \/ Find(s, p) # 0

\* str::split(p) collected: pieces between successive non-overlapping matches,
\* searched left to right (p is never empty in this program)
RECURSIVE Split(_, _)
Split(s, p) ==
    LET i == Find(s, p)
    IN  IF i = 0 THEN <<s>>
        ELSE <<SubSeq(s, 1, i - 1)>> \o Split(SubSeq(s, i + Len(p), Len(s)), p)

\* Iterator::last().unwrap() on a split: split always yields at least one piece
Last(pieces) == pieces[Len(pieces)]

\* str::replace(p, ""): every match of p removed
RECURSIVE Remove(_, _)
Remove(s, p) ==
    LET i == Find(s, p)
    IN  IF i = 0 THEN s
        ELSE SubSeq(s, 1, i - 1) \o Remove(SubSeq(s, i + Len(p), Len(s)), p)

-----------------------------------------------------------------------------
(* u32: a value 0 .. 2^32-1 held as two 16-bit limbs, [hi, lo], because the  *)
(* model checker's integers are 32-bit signed.                              *)

Limb == 256 * 256

U32(hi, lo) == [hi |-> hi, lo |-> lo]

Digits == "0123456789"

IsDigit(c) == Find(Digits, c) # 0

DigitVal(c) == Find(Digits, c) - 1

\* checked_mul(10) followed by checked_add(d): None on overflow
MulAdd10(v, d) ==
    LET lo == v.lo * 10 + d
        hi == v.hi * 10 + (lo \div Limb)
    IN  IF hi >= Limb THEN None ELSE Some(U32(hi, lo % Limb))

RECURSIVE ParseDigits(_, _)
ParseDigits(s, acc) ==
    IF Len(s) = 0 THEN Some(acc)
    ELSE LET c == SubSeq(s, 1, 1)
         IN  IF ~IsDigit(c) THEN None
             ELSE LET nxt == MulAdd10(acc, DigitVal(c))
                  IN  IF IsSome(nxt) THEN ParseDigits(Tail(s), Unwrap(nxt))
                      ELSE None

\* str::parse::<u32>(): an optional leading '+', then one or more decimal
\* digits, value at most 2^32-1.  None stands for Err(ParseIntError).
ParseU32(s) ==
    IF Len(s) = 0 THEN None
    ELSE LET body == IF SubSeq(s, 1, 1) = "+" THEN Tail(s) ELSE s
         IN  IF Len(body) = 0 THEN None ELSE ParseDigits(body, U32(0, 0))

-----------------------------------------------------------------------------
(* HashMap<String, String> *)

EmptyMap == [k \in {} |-> ""]

\* HashMap::insert: adds the entry or replaces the value of an existing one
Insert(m, k, v) == [x \in (DOMAIN m) \cup {k} |-> IF x = k THEN v ELSE m[x]]

\* HashMap::get: Option of the value
Get(m, k) == IF k \in DOMAIN m THEN Some(m[k]) ELSE None

-----------------------------------------------------------------------------
(* Ext and its setters, src/src/main.rs:27-74 *)

Ext_new ==
    [version |-> None, target_duration |-> None, play_list_type |-> None,
     media_sequence |-> None, key |-> None, uri_list |-> Some(<< >>)]

set_version(e, version) == [e EXCEPT !.version = Some(version)]

set_target_duration(e, target_duration) ==
    [e EXCEPT !.target_duration = Some(target_duration)]

set_play_list_type(e, play_list_type) ==
    [e EXCEPT !.play_list_type = Some(play_list_type)]

set_media_sequence(e, media_sequence) ==
    [e EXCEPT !.media_sequence = Some(media_sequence)]

\* the new entries are merged into the map already held
set_key_merging(e, key_hash) ==
    [e EXCEPT !.key =
        Some([x \in (DOMAIN key_hash) \cup (IF IsSome(e.key) THEN DOMAIN Unwrap(e.key) ELSE {})
                |-> IF x \in DOMAIN key_hash THEN key_hash[x] ELSE Unwrap(e.key)[x]])]

set_key(e, key_hash) == [e EXCEPT !.key = Some(key_hash)]

\* uri_list is Some from Ext::new on, so the panic arm is never taken
set_uri_list(e, uri) ==
    [e EXCEPT !.uri_list = Some(Append(Unwrap(e.uri_list), uri))]

-----------------------------------------------------------------------------
(* acquire_u32 / acquire_string, src/src/main.rs:240-250 *)

\* None stands for the panic of parse::<u32>().unwrap()
acquire_u32(context, keyword) == ParseU32(Last(Split(context, keyword)))

acquire_string(context, keyword) == Last(Split(context, keyword))

-----------------------------------------------------------------------------
(* analyze, src/src/main.rs:133-187: the body of the for_each closure *)

\* one comma-separated field of a key line folded into key_hash (lines 164-177)
key_field(key_hash, field) ==
    LET h1 == IF StartsWith(field, METHOD)
              THEN Insert(key_hash, METHOD, Last(Split(field, METHOD)))
              ELSE key_hash
        h2 == IF StartsWith(field, URL)
              THEN Insert(h1, URL, Remove(Last(Split(field, URL)), "\""))
              ELSE h1
    IN  h2

RECURSIVE key_fields(_, _)
key_fields(key_hash, fields) ==
    IF fields = << >> THEN key_hash
    ELSE key_fields(key_field(key_hash, Head(fields)), Tail(fields))

\* the HashMap built from one #EXT-X-KEY: line (lines 159-177)
key_of_line(line) ==
    key_fields(EmptyMap, Split(Last(Split(line, EXT_X_KEY)), ","))

\* the line makes one of the three acquire_u32 calls panic
line_panics(line) ==
    \/ StartsWith(line, EXT_X_VERSION) /\ ~IsSome(acquire_u32(line, EXT_X_VERSION))
    \/ StartsWith(line, EXT_X_TARGETDURATION)
          /\ ~IsSome(acquire_u32(line, EXT_X_TARGETDURATION))
    \/ StartsWith(line, EXT_X_MEDIA_SEQUENCE)
          /\ ~IsSome(acquire_u32(line, EXT_X_MEDIA_SEQUENCE))

\* str::ends_with in place of str::contains
line_ends_with(line, sfx) ==
    /\ Len(sfx) <= Len(line)
    /\ SubSeq(line, Len(line) - Len(sfx) + 1, Len(line)) = sfx

\* the suffix test of lines 182-184
line_is_uri(line, sfx) == Contains(line, sfx)

\* set_key called for every line, not only under its `if`
analyze_line_key_always(e, line, sfx) ==
    LET e1 == IF StartsWith(line, EXT_X_VERSION)
              THEN set_version(e, Unwrap(acquire_u32(line, EXT_X_VERSION)))
              ELSE e
        e2 == IF StartsWith(line, EXT_X_TARGETDURATION)
              THEN set_target_duration(e1, Unwrap(acquire_u32(line, EXT_X_TARGETDURATION)))
              ELSE e1
        e3 == IF StartsWith(line, EXT_X_PLAYLIST_TYPE)
              THEN set_play_list_type(e2, acquire_string(line, EXT_X_PLAYLIST_TYPE))
              ELSE e2
        e4 == IF StartsWith(line, EXT_X_MEDIA_SEQUENCE)
              THEN set_media_sequence(e3, Unwrap(acquire_u32(line, EXT_X_MEDIA_SEQUENCE)))
              ELSE e3
        e5 == set_key(e4, key_of_line(line))
        e6 == IF line_is_uri(line, sfx)
              THEN set_uri_list(e5, line)
              ELSE e5
    IN  e6

\* effect of the closure on ext for a line that does not panic: five
\* independent `if`s in source order, then the suffix test
analyze_line(e, line, sfx) ==
    LET e1 == IF StartsWith(line, EXT_X_VERSION)
              THEN set_version(e, Unwrap(acquire_u32(line, EXT_X_VERSION)))
              ELSE e
        e2 == IF StartsWith(line, EXT_X_TARGETDURATION)
              THEN set_target_duration(e1, Unwrap(acquire_u32(line, EXT_X_TARGETDURATION)))
              ELSE e1
        e3 == IF StartsWith(line, EXT_X_PLAYLIST_TYPE)
              THEN set_play_list_type(e2, acquire_string(line, EXT_X_PLAYLIST_TYPE))
              ELSE e2
        e4 == IF StartsWith(line, EXT_X_MEDIA_SEQUENCE)
              THEN set_media_sequence(e3, Unwrap(acquire_u32(line, EXT_X_MEDIA_SEQUENCE)))
              ELSE e3
        e5 == IF StartsWith(line, EXT_X_KEY)
              THEN set_key(e4, key_of_line(line))
              ELSE e4
        e6 == IF line_is_uri(line, sfx)
              THEN set_uri_list(e5, line)
              ELSE e5
    IN  e6

\* m3u8_value.split("\n")
split_lines(text) == Split(text, "\n")

-----------------------------------------------------------------------------
(* Byte buffers *)

Byte == 256

RECURSIVE Concat(_)
Concat(bufs) == IF bufs = << >> THEN << >> ELSE Head(bufs) \o Concat(Tail(bufs))

Rep(b, n) == [i \in 1..n |-> b]

Take(b, n) == SubSeq(b, 1, IF n < Len(b) THEN n ELSE Len(b))

Drop(b, n) == SubSeq(b, n + 1, Len(b))

RECURSIVE Xor(_, _)
Xor(a, b) ==
    IF a = 0 /\ b = 0 THEN 0
    ELSE (((a % 2) + (b % 2)) % 2) + 2 * Xor(a \div 2, b \div 2)

XorBlock(x, y) == [i \in 1..BlockLen |-> Xor(x[i], y[i])]

-----------------------------------------------------------------------------
(* Response::text() followed by String::as_bytes(), src/src/main.rs:211,214: *)
(* the body is decoded as UTF-8 (no charset given by the server), every      *)
(* maximal ill-formed subsequence becoming U+FFFD, and the String's bytes    *)
(* are the UTF-8 encoding of the decoded text.  A leading UTF-8 byte order   *)
(* mark is dropped by the decoder.  (Bodies starting with a UTF-16 byte      *)
(* order mark, FF FE or FE FF, are decoded as UTF-16 and are not among the   *)
(* key bodies enumerated below.)                                            *)

REPLACEMENT == <<239, 191, 189>>

BOM == <<239, 187, 191>>

\* number of continuation bytes the lead byte b asks for, 0 when b is not a lead
Utf8Need(b) ==
    IF b >= 194 /\ b <= 223 THEN 1
    ELSE IF b >= 224 /\ b <= 239 THEN 2
    ELSE IF b >= 240 /\ b <= 244 THEN 3
    ELSE 0

\* range allowed for the byte right after lead byte b
Utf8SecondLo(b) == IF b = 224 THEN 160 ELSE IF b = 240 THEN 144 ELSE 128

Utf8SecondHi(b) == IF b = 237 THEN 159 ELSE IF b = 244 THEN 143 ELSE 191

\* continuation byte k (1-based, after the lead) of the sequence starting bytes
Utf8ContOk(bytes, k) ==
    /\ Len(bytes) >= k + 1
    /\ IF k = 1
       THEN bytes[2] >= Utf8SecondLo(bytes[1]) /\ bytes[2] <= Utf8SecondHi(bytes[1])
       ELSE bytes[k + 1] >= 128 /\ bytes[k + 1] <= 191

\* number of well-formed continuation bytes present after the lead, up to need
Utf8Good(bytes, need) ==
    IF need = 0 THEN 0
    ELSE LET ok == {k \in 0..need : \A j \in 1..k : Utf8ContOk(bytes, j)}
         IN  CHOOSE k \in ok : \A j \in ok : j <= k

RECURSIVE Utf8Lossy(_)
Utf8Lossy(bytes) ==
    IF bytes = << >> THEN << >>
    ELSE LET b == bytes[1]
             need == Utf8Need(b)
             good == Utf8Good(bytes, need)
         IN  IF b < 128 THEN <<b>> \o Utf8Lossy(Tail(bytes))
             ELSE IF need > 0 /\ good = need
                  THEN Take(bytes, need + 1) \o Utf8Lossy(Drop(bytes, need + 1))
                  ELSE REPLACEMENT \o Utf8Lossy(Drop(bytes, 1 + good))

text_as_bytes(body) ==
    IF Len(body) >= 3 /\ Take(body, 3) = BOM
    THEN Utf8Lossy(Drop(body, 3))
    ELSE Utf8Lossy(body)

-----------------------------------------------------------------------------
(* decrypt, src/src/main.rs:111-131.  AES-128 itself belongs to the crypto   *)
(* library; its block transformation is stood in for by a keyed byte-wise   *)
(* permutation, while CBC chaining, PKCS padding, the fixed output buffer   *)
(* and the error paths follow the code.                                    *)

\* capacity of `buffer` (819200 in the source), scaled down
BufCap == 16

BlockEnc(k, p) == [i \in 1..BlockLen |-> (p[i] + k[i]) % Byte]

BlockDec(k, c) == [i \in 1..BlockLen |-> (c[i] + Byte - k[i]) % Byte]

RECURSIVE CbcDec(_, _, _)
CbcDec(k, prev, data) ==
    IF Len(data) < BlockLen THEN << >>
    ELSE LET c == Take(data, BlockLen)
         IN  XorBlock(BlockDec(k, c), prev) \o CbcDec(k, c, Drop(data, BlockLen))

RECURSIVE CbcEnc(_, _, _)
CbcEnc(k, prev, data) ==
    IF Len(data) < BlockLen THEN << >>
    ELSE LET c == BlockEnc(k, XorBlock(Take(data, BlockLen), prev))
         IN  c \o CbcEnc(k, c, Drop(data, BlockLen))

PkcsPad(p) == LET n == BlockLen - (Len(p) % BlockLen) IN p \o Rep(n, n)

\* PkcsPadding accepted: the last byte n is in 1..BlockLen and the last n bytes are n
PkcsOk(raw) ==
    /\ Len(raw) > 0
    /\ LET n == raw[Len(raw)]
       IN  /\ n >= 1
           /\ n <= BlockLen
           /\ n <= Len(raw)
           /\ \A i \in (Len(raw) - n + 1)..Len(raw) : raw[i] = n

PkcsStrip(raw) == Take(raw, Len(raw) - raw[Len(raw)])

\* the encryption the segments of an encrypted playlist were produced with
Encrypt(k, iv, plain) == CbcEnc(k, iv, PkcsPad(plain))

\* decrypt with a key of exactly KeyLen bytes: None is the panic of
\* .unwrap() on Err(InvalidLength / InvalidPadding).  The decryptor fills the
\* output buffer block by block and stops with Ok(BufferOverflow), which the
\* code does not look at, once the buffer is full: the final block, where
\* length and padding are checked, is then never reached.
decrypt16(k, iv, data) ==
    LET nblocks == (Len(data) + BlockLen - 1) \div BlockLen
        raw == CbcDec(k, iv, data)
    IN  IF nblocks >= 1 /\ (nblocks - 1) * BlockLen > BufCap
        THEN Some(Take(raw, BufCap))
        ELSE IF Len(data) = 0 \/ Len(data) % BlockLen # 0 THEN None
        ELSE IF ~PkcsOk(raw) THEN None
        ELSE Some(Take(PkcsStrip(raw), BufCap))

\* bytes an out-of-bounds read of a short key may pick up
OobBytes == {0, 255}

\* every outcome decrypt can have.  With a key that is not KeyLen bytes long
\* the software key schedule panics, while the AES-NI key schedule reads
\* KeyLen bytes from the key's address whatever its length.
decrypt(k, iv, data) ==
    IF Len(k) = KeyLen THEN {decrypt16(k, iv, data)}
    ELSE IF Len(k) > KeyLen THEN {None, decrypt16(Take(k, KeyLen), iv, data)}
    ELSE {None} \cup {decrypt16(k \o Rep(f, KeyLen - Len(k)), iv, data) : f \in OobBytes}

-----------------------------------------------------------------------------
(* Inputs: what the command line and the servers supply *)

\* longest manifest, in lines
MaxLines == 3

domain_name == "http://h"

\* the default of --suffix
DefaultSuffix == ".ts"

KeyLine == "#EXT-X-KEY:METHOD=AES-128,URI=\"key.bin\""

KeyLineEmptyMethod == "#EXT-X-KEY:METHOD=,URI=\"key.bin\""

KeyLineEmptyUri == "#EXT-X-KEY:METHOD=AES-128,URI=\"\""

KeyLineMethodOnly == "#EXT-X-KEY:METHOD=NONE"

KeyLineUriOnly == "#EXT-X-KEY:URI=\"other.bin\""

KeyLineUriInUri == "#EXT-X-KEY:METHOD=AES-128,URI=\"k?URI=x\""

KeyLineWithSuffix == "#EXT-X-KEY:METHOD=AES-128,URI=\"k.ts\""

VersionLineBad == "#EXT-X-VERSION:x"

VersionLineTwice == "#EXT-X-VERSION:x#EXT-X-VERSION:7"

VersionLineMax == "#EXT-X-VERSION:4294967295"

DurationLine == "#EXT-X-TARGETDURATION:10"

DurationLineEmpty == "#EXT-X-TARGETDURATION:"

SequenceLine == "#EXT-X-MEDIA-SEQUENCE:+0"

SequenceLineOverflow == "#EXT-X-MEDIA-SEQUENCE:4294967296"

TypeLine == "#EXT-X-PLAYLIST-TYPE:VOD"

\* lines the full runs are built from
RunLines ==
    {KeyLine, KeyLineEmptyMethod, KeyLineEmptyUri, KeyLineMethodOnly,
     KeyLineUriInUri, "a.ts", "b.ts", VersionLineBad, VersionLineTwice,
     DurationLineEmpty, SequenceLineOverflow}

\* lines the parser-only runs are built from
ParseLines ==
    {KeyLineMethodOnly, KeyLineUriOnly, KeyLineWithSuffix, VersionLineMax,
     DurationLine, SequenceLine, SequenceLineOverflow, TypeLine, "#EXTINF:9.5,",
     "a.ts"}

RECURSIVE Join(_)
Join(ls) ==
    IF ls = << >> THEN ""
    ELSE IF Len(ls) = 1 THEN ls[1]
    ELSE ls[1] \o "\n" \o Join(Tail(ls))

Manifests(lineSet) ==
    {Join(ls) : ls \in UNION {[1..n -> lineSet] : n \in 0..MaxLines}}

\* key resources: 16 bytes of ASCII, and 16 bytes that are not valid UTF-8
KeyAscii == Rep(65, KeyLen)

KeyBinary == Rep(65, KeyLen - 1) \o <<255>>

KeyBodies == {KeyAscii, KeyBinary}

PlainShort == <<71, 64>>

PlainLong == Rep(71, BufCap + BlockLen + 1)

\* segment resources: two encrypted under KeyAscii and one that is no ciphertext
SegBodies ==
    {Encrypt(KeyAscii, IV, PlainShort), Encrypt(KeyAscii, IV, PlainLong), <<1, 2, 3>>}

\* body of a response that reports an error
ErrorPage == <<52, 48, 52>>

\* responses a server may give: reqwest::get yields Ok(response) for every
\* status, success or not
Responses(okBodies) ==
    {[status |-> 200, body |-> b] : b \in okBodies}
        \cup {[status |-> 404, body |-> ErrorPage]}

\* what the output path holds before the run
OldFiles == {<< >>, <<7>>}

-----------------------------------------------------------------------------
(* main, src/src/main.rs:100-109 *)

InitWith(manifests, suffixes) ==
    /\ m3u8_value \in manifests
    /\ suffix \in suffixes
    /\ pc = "main"
    /\ fail = "none"
    /\ ext = Ext_new
    /\ lines = << >>
    /\ line_no = 0
    /\ disk \in OldFiles
    /\ created = FALSE
    /\ key = None
    /\ key_body = None
    /\ key_status = None
    /\ count = 1
    /\ buf = << >>
    /\ result = << >>
    /\ bodies = << >>
    /\ statuses = << >>
    /\ results = << >>
    /\ written = << >>
    /\ issued = << >>
    /\ outstanding = {}

Init == InitWith(Manifests(RunLines), {DefaultSuffix})

\* reqwest::get(&m3u8.m_url).await? and response.text().await? succeed; analyze
\* starts by splitting the text
main_get_ok ==
    /\ pc = "main"
    /\ lines' = split_lines(m3u8_value)
    /\ pc' = "analyze"
    /\ UNCHANGED <<m3u8_value, suffix, fail, ext, line_no, disk, created, key, key_body, key_status,
                   count, buf, result, bodies, statuses, results, written, issued, outstanding>>

\* one of them fails: main returns the Err
main_get_err ==
    /\ pc = "main"
    /\ pc' = "done_err"
    /\ fail' = "manifest"
    /\ UNCHANGED <<m3u8_value, suffix, ext, lines, line_no, disk, created, key, key_body, key_status,
                   count, buf, result, bodies, statuses, results, written, issued, outstanding>>

-----------------------------------------------------------------------------
(* analyze, src/src/main.rs:133-187: one step per line of the for_each *)

analyze_step ==
    /\ pc = "analyze"
    /\ line_no < Len(lines)
    /\ ~line_panics(lines[line_no + 1])
    /\ ext' = analyze_line(ext, lines[line_no + 1], suffix)
    /\ line_no' = line_no + 1
    /\ UNCHANGED <<m3u8_value, suffix, pc, fail, lines, disk, created, key, key_body, key_status,
                   count, buf, result, bodies, statuses, results, written, issued, outstanding>>

\* parse::<u32>().unwrap() panics inside acquire_u32
analyze_panic ==
    /\ pc = "analyze"
    /\ line_no < Len(lines)
    /\ line_panics(lines[line_no + 1])
    /\ pc' = "panic"
    /\ fail' = "parse"
    /\ UNCHANGED <<m3u8_value, suffix, ext, lines, line_no, disk, created, key, key_body, key_status,
                   count, buf, result, bodies, statuses, results, written, issued, outstanding>>

\* Ok(()) of analyze: main goes on to down_load
analyze_return ==
    /\ pc = "analyze"
    /\ line_no = Len(lines)
    /\ pc' = "down_load"
    /\ UNCHANGED <<m3u8_value, suffix, fail, ext, lines, line_no, disk, created, key, key_body, key_status,
                   count, buf, result, bodies, statuses, results, written, issued, outstanding>>

-----------------------------------------------------------------------------
(* down_load, src/src/main.rs:189-224 *)

uri_list == Unwrap(ext.uri_list)

\* an empty URI value is not looked at
gate_ignores_empty_uri(e) ==
    IF ~IsSome(e.key) THEN "no_key"
    ELSE LET key_value == Unwrap(e.key)
             method == Get(key_value, METHOD)
             uri == Get(key_value, URL)
         IN  IF ~IsSome(method) THEN "panic"
             ELSE IF Unwrap(method) = "" THEN "as_is"
             ELSE IF ~IsSome(uri) THEN "panic"
             ELSE "decrypt"

\* the branch lines 194-204 select.  "panic" is .unwrap() on a missing entry;
\* `||` does not look at the URI entry when the METHOD value is empty.
gate(e) ==
    IF ~IsSome(e.key) THEN "no_key"
    ELSE LET key_value == Unwrap(e.key)
             method == Get(key_value, METHOD)
             uri == Get(key_value, URL)
         IN  IF ~IsSome(method) THEN "panic"
             ELSE IF Unwrap(method) = "" THEN "as_is"
             ELSE IF ~IsSome(uri) THEN "panic"
             ELSE IF Unwrap(uri) = "" THEN "as_is"
             ELSE "decrypt"

key_request == [kind |-> "key", pos |-> 0,
                url |-> domain_name \o Unwrap(ext.key)[URL]]

\* request_resource's format!("{}/{}", domain_name, uri)
seg_request(i) == [kind |-> "seg", pos |-> i,
                   url |-> domain_name \o "/" \o uri_list[i]]

\* File::create(path).expect(..) panics
create_panic ==
    /\ pc = "down_load"
    /\ pc' = "panic"
    /\ fail' = "create"
    /\ UNCHANGED <<m3u8_value, suffix, ext, lines, line_no, disk, created, key, key_body, key_status,
                   count, buf, result, bodies, statuses, results, written, issued, outstanding>>

\* File::create truncates; ext.key is None: nothing else is done (no else arm)
down_load_no_key ==
    /\ pc = "down_load"
    /\ gate(ext) = "no_key"
    /\ created' = TRUE
    /\ disk' = << >>
    /\ pc' = "done_ok"
    /\ UNCHANGED <<m3u8_value, suffix, fail, ext, lines, line_no, key, key_body, key_status,
                   count, buf, result, bodies, statuses, results, written, issued, outstanding>>

\* key_value.get(..).unwrap() on an entry the key line did not give
down_load_gate_panic ==
    /\ pc = "down_load"
    /\ gate(ext) = "panic"
    /\ created' = TRUE
    /\ disk' = << >>
    /\ pc' = "panic"
    /\ fail' = "gate"
    /\ UNCHANGED <<m3u8_value, suffix, ext, lines, line_no, key, key_body, key_status,
                   count, buf, result, bodies, statuses, results, written, issued, outstanding>>

\* METHOD or URI value empty: the loop of lines 198-203
down_load_as_is ==
    /\ pc = "down_load"
    /\ gate(ext) = "as_is"
    /\ created' = TRUE
    /\ disk' = << >>
    /\ count' = 1
    /\ pc' = "loop"
    /\ UNCHANGED <<m3u8_value, suffix, fail, ext, lines, line_no, key, key_body, key_status,
                   buf, result, bodies, statuses, results, written, issued, outstanding>>

\* the file is opened without truncating it
down_load_key_get_no_truncate ==
    /\ pc = "down_load"
    /\ gate(ext) = "decrypt"
    /\ created' = TRUE
    /\ count' = 1
    /\ issued' = Append(issued, key_request)
    /\ outstanding' = outstanding \cup {key_request}
    /\ pc' = "await_key"
    /\ UNCHANGED <<m3u8_value, suffix, fail, ext, lines, line_no, disk, key, key_body,
                   key_status, buf, result, bodies, statuses, results, written>>

\* otherwise the key is requested (lines 205-210)
down_load_key_get ==
    /\ pc = "down_load"
    /\ gate(ext) = "decrypt"
    /\ created' = TRUE
    /\ disk' = << >>
    /\ count' = 1
    /\ issued' = Append(issued, key_request)
    /\ outstanding' = outstanding \cup {key_request}
    /\ pc' = "await_key"
    /\ UNCHANGED <<m3u8_value, suffix, fail, ext, lines, line_no, key, key_body, key_status,
                   buf, result, bodies, statuses, results, written>>

\* the key response arrives, whatever its status, and key_resp.text() is taken
\* (lines 210-211)
key_get_ok ==
    /\ pc = "await_key"
    /\ \E resp \in Responses(KeyBodies) :
          /\ key_status' = Some(resp.status)
          /\ key_body' = Some(resp.body)
          /\ key' = Some(text_as_bytes(resp.body))
    /\ outstanding' = outstanding \ {key_request}
    /\ pc' = "loop"
    /\ UNCHANGED <<m3u8_value, suffix, fail, ext, lines, line_no, disk, created,
                   count, buf, result, bodies, statuses, results, written, issued>>

\* reqwest::get(..).await? or text().await? yields Err: down_load returns it
key_get_err ==
    /\ pc = "await_key"
    /\ outstanding' = outstanding \ {key_request}
    /\ pc' = "done_err"
    /\ fail' = "key_fetch"
    /\ UNCHANGED <<m3u8_value, suffix, ext, lines, line_no, disk, created, key, key_body, key_status,
                   count, buf, result, bodies, statuses, results, written, issued>>

\* the key is requested again for every segment of the decrypting loop
loop_request_with_key ==
    /\ pc = "loop"
    /\ count <= Len(uri_list)
    /\ issued' = issued \o (IF gate(ext) = "decrypt" THEN <<key_request>> ELSE << >>)
                        \o <<seg_request(count)>>
    /\ outstanding' = outstanding \cup {seg_request(count)}
    /\ pc' = "await_seg"
    /\ UNCHANGED <<m3u8_value, suffix, fail, ext, lines, line_no, disk, created, key,
                   key_body, key_status, count, buf, result, bodies, statuses, results, written>>

\* next element of uri_list.iter(): request_resource issues its request
loop_request ==
    /\ pc = "loop"
    /\ count <= Len(uri_list)
    /\ issued' = Append(issued, seg_request(count))
    /\ outstanding' = outstanding \cup {seg_request(count)}
    /\ pc' = "await_seg"
    /\ UNCHANGED <<m3u8_value, suffix, fail, ext, lines, line_no, disk, created, key, key_body, key_status,
                   count, buf, result, bodies, statuses, results, written>>

\* the iterator is exhausted: Ok(())
loop_done ==
    /\ pc = "loop"
    /\ count > Len(uri_list)
    /\ pc' = "done_ok"
    /\ UNCHANGED <<m3u8_value, suffix, fail, ext, lines, line_no, disk, created, key, key_body, key_status,
                   count, buf, result, bodies, statuses, results, written, issued, outstanding>>

\* the next request is issued as soon as a body arrived, its write left out
request_ok_no_write ==
    /\ pc = "await_seg"
    /\ \E resp \in Responses(SegBodies) :
          /\ buf' = resp.body
          /\ bodies' = Append(bodies, resp.body)
          /\ statuses' = Append(statuses, resp.status)
    /\ outstanding' = outstanding \ {seg_request(count)}
    /\ count' = count + 1
    /\ pc' = "loop"
    /\ UNCHANGED <<m3u8_value, suffix, fail, ext, lines, line_no, disk, created, key,
                   key_body, key_status, result, results, written, issued>>

\* request_resource returns the body of the response, whatever its status
\* (src/src/main.rs:226-238)
request_ok ==
    /\ pc = "await_seg"
    /\ \E resp \in Responses(SegBodies) :
          /\ buf' = resp.body
          /\ bodies' = Append(bodies, resp.body)
          /\ statuses' = Append(statuses, resp.status)
    /\ outstanding' = outstanding \ {seg_request(count)}
    /\ pc' = IF gate(ext) = "decrypt" THEN "decrypt" ELSE "write"
    /\ UNCHANGED <<m3u8_value, suffix, fail, ext, lines, line_no, disk, created, key, key_body, key_status,
                   count, result, results, written, issued>>

\* the failed segment is skipped and the loop goes on
request_panic_skips ==
    /\ pc = "await_seg"
    /\ outstanding' = outstanding \ {seg_request(count)}
    /\ count' = count + 1
    /\ pc' = "loop"
    /\ fail' = "seg_fetch"
    /\ UNCHANGED <<m3u8_value, suffix, ext, lines, line_no, disk, created, key, key_body, key_status,
                   buf, result, bodies, statuses, results, written, issued>>

\* .await.unwrap() in request_resource panics on a transport error
request_panic ==
    /\ pc = "await_seg"
    /\ outstanding' = outstanding \ {seg_request(count)}
    /\ pc' = "panic"
    /\ fail' = "seg_fetch"
    /\ UNCHANGED <<m3u8_value, suffix, ext, lines, line_no, disk, created, key, key_body, key_status,
                   count, buf, result, bodies, statuses, results, written, issued>>

\* decrypt(key.as_bytes(), &IV, &buf) returns (line 214)
decrypt_ok ==
    /\ pc = "decrypt"
    /\ \E out \in decrypt(Unwrap(key), IV, buf) :
          /\ IsSome(out)
          /\ result' = Unwrap(out)
          /\ results' = Append(results, Unwrap(out))
    /\ pc' = "write"
    /\ UNCHANGED <<m3u8_value, suffix, fail, ext, lines, line_no, disk, created, key, key_body, key_status,
                   count, buf, bodies, statuses, written, issued, outstanding>>

\* the error is swallowed and the undecrypted body is written
decrypt_panic_writes_body ==
    /\ pc = "decrypt"
    /\ None \in decrypt(Unwrap(key), IV, buf)
    /\ result' = buf
    /\ pc' = "write"
    /\ fail' = "decrypt"
    /\ UNCHANGED <<m3u8_value, suffix, ext, lines, line_no, disk, created, key, key_body,
                   key_status, count, buf, bodies, statuses, results, written, issued,
                   outstanding>>

\* decrypt panics
decrypt_panic ==
    /\ pc = "decrypt"
    /\ None \in decrypt(Unwrap(key), IV, buf)
    /\ pc' = "panic"
    /\ fail' = "decrypt"
    /\ UNCHANGED <<m3u8_value, suffix, ext, lines, line_no, disk, created, key, key_body, key_status,
                   count, buf, result, bodies, statuses, results, written, issued, outstanding>>

\* what write_all is handed: `result` in the decrypting loop, `buf` in the other
to_write == IF gate(ext) = "decrypt" THEN result ELSE buf

\* write_all, println!, count += 1 (lines 200-202 and 215-217)
write ==
    /\ pc = "write"
    /\ disk' = disk \o to_write
    /\ written' = Append(written, count)
    /\ count' = count + 1
    /\ pc' = "loop"
    /\ UNCHANGED <<m3u8_value, suffix, fail, ext, lines, line_no, created, key, key_body, key_status,
                   buf, result, bodies, statuses, results, issued, outstanding>>

-----------------------------------------------------------------------------

Next ==
    \/ main_get_ok
    \/ main_get_err
    \/ analyze_step
    \/ analyze_panic
    \/ analyze_return
    \/ create_panic
    \/ down_load_no_key
    \/ down_load_gate_panic
    \/ down_load_as_is
    \/ down_load_key_get
    \/ key_get_ok
    \/ key_get_err
    \/ loop_request
    \/ loop_done
    \/ request_ok
    \/ request_panic
    \/ decrypt_ok
    \/ decrypt_panic
    \/ write

Spec == Init /\ [][Next]_vars

\* the parser alone, over a wider choice of manifests and suffixes
InitParse == InitWith(Manifests(ParseLines), {DefaultSuffix, ""})

NextParse ==
    \/ main_get_ok
    \/ main_get_err
    \/ analyze_step
    \/ analyze_panic
    \/ analyze_return

SpecParse == InitParse /\ [][NextParse]_vars

TypeOK ==
    /\ pc \in {"main", "analyze", "down_load", "await_key", "loop", "await_seg",
               "decrypt", "write", "done_ok", "done_err", "panic"}
    /\ fail \in {"none", "manifest", "parse", "create", "gate", "key_fetch",
                 "seg_fetch", "decrypt"}
    /\ created \in BOOLEAN
    /\ count \in 1..(MaxLines + 2)
    /\ line_no \in 0..(MaxLines + 1)

-----------------------------------------------------------------------------
(* Vocabulary of the properties *)

decrypting == gate(ext) = "decrypt"

\* analyze has returned Ok
parsed == pc \notin {"main", "analyze"} /\ fail \notin {"manifest", "parse"}

\* requests of one kind, in the order they were issued
RequestsOf(kind) == SelectSeq(issued, LAMBDA r : r.kind = kind)

UpTo(n) == [i \in 1..n |-> i]

\* the decrypt step's outputs are outputs of decrypt for the bodies fetched
\* under the one key read
ResultsFromKey ==
    /\ Len(results) <= Len(bodies)
    /\ \A i \in 1..Len(results) :
          Some(results[i]) \in decrypt(Unwrap(key), IV, bodies[i])

\* processed content of the segments fetched: the decrypt step's output for
\* the body when decryption is active, the body itself otherwise
processed == IF decrypting THEN results ELSE bodies

-----------------------------------------------------------------------------
\* C1: a run that terminates without error has fetched every segment
\* reference and its output is the concatenation, in playlist order, of the
\* processed content of all of them.
C1_OutputIsConcatenation ==
    pc = "done_ok" =>
        /\ Len(bodies) = Len(uri_list)
        /\ Len(processed) = Len(uri_list)
        /\ decrypting => ResultsFromKey
        /\ disk = Concat(processed)

\* C2: with no key descriptor and at least one segment reference, a finished
\* run has fetched every segment and written the fetched bytes unmodified,
\* with no key fetch and no decryption.
C2_NoKeyFetchesAll ==
    (pc = "done_ok" /\ ~IsSome(ext.key) /\ Len(uri_list) >= 1) =>
        /\ RequestsOf("seg") = [i \in 1..Len(uri_list) |-> seg_request(i)]
        /\ disk = Concat(bodies)
        /\ RequestsOf("key") = << >>
        /\ results = << >>

\* the key descriptor holds both entries and one of the two values is empty
C3_Pre ==
    /\ parsed
    /\ IsSome(ext.key)
    /\ {METHOD, URL} \subseteq DOMAIN Unwrap(ext.key)
    /\ (Unwrap(ext.key)[METHOD] = "" \/ Unwrap(ext.key)[URL] = "")

\* C3: with a METHOD and a URI entry of which at least one is empty, no key
\* is fetched, nothing is decrypted, the output is the fetched bytes of the
\* segments written so far, the gate raises no error, and a run whose
\* fetches all succeed ends Ok with every segment written.
C3_EmptyValueIsNoEncryption ==
    C3_Pre =>
        /\ RequestsOf("key") = << >>
        /\ key = None
        /\ results = << >>
        /\ pc # "decrypt"
        /\ created => disk = Concat(SubSeq(bodies, 1, Len(written)))
        /\ fail \in {"none", "create", "seg_fetch"}
        /\ pc # "done_err"
        /\ pc = "done_ok" => written = UpTo(Len(uri_list))

C3_Witness ==
    /\ C3_Pre
    /\ pc = "done_ok"
    /\ Unwrap(ext.key)[URL] = ""
    /\ Unwrap(ext.key)[METHOD] # ""
    /\ Len(written) = 2
    /\ disk # << >>

\* C4: when the fetch of segment k fails the run is over: the segment
\* requests issued are those of positions 1..k, k-1 bodies were received,
\* exactly positions 1..k-1 were written, and the output is the processed
\* content of segments 1..k-1 in order; in both branches.
C4_FetchFailureAborts ==
    fail = "seg_fetch" =>
        /\ pc = "panic"
        /\ RequestsOf("seg") = [i \in 1..count |-> seg_request(i)]
        /\ Len(bodies) = count - 1
        /\ written = UpTo(count - 1)
        /\ Len(processed) = count - 1
        /\ decrypting => ResultsFromKey
        /\ disk = Concat(processed)
        /\ outstanding = {}

C4_Witness ==
    /\ fail = "seg_fetch"
    /\ decrypting
    /\ count = 2
    /\ disk = PlainShort

\* C5: segment requests are issued in list order, one per position; a
\* request for position i+1 is issued only once position i has been written;
\* never more than one request is outstanding.
C5_OneFetchAtATime ==
    LET segs == RequestsOf("seg")
    IN  /\ Len(segs) <= Len(uri_list)
        /\ segs = [i \in 1..Len(segs) |-> seg_request(i)]
        /\ written = UpTo(Len(written))
        /\ Len(segs) <= Len(written) + 1
        /\ Cardinality(outstanding) <= 1
        /\ \A r \in outstanding :
              r.kind = "seg" => r.pos = Len(segs) /\ Len(written) = r.pos - 1

C5_Witness ==
    /\ pc = "await_seg"
    /\ Len(RequestsOf("seg")) = 2
    /\ written = <<1>>
    /\ outstanding = {seg_request(2)}

\* C6: when decryption is active the run issues exactly one key request, as
\* its first request, no segment is requested before the key was read, and
\* every decrypt output comes from that one key; when decryption is not
\* active there is no key request.
C6_OneKeyFetch ==
    /\ (parsed /\ created /\ decrypting) =>
          /\ Len(RequestsOf("key")) = 1
          /\ issued[1] = key_request
          /\ RequestsOf("seg") # << >> => IsSome(key) /\ key_request \notin outstanding
          /\ IsSome(key) => ResultsFromKey
          /\ ~IsSome(key) => results = << >>
    /\ ~(parsed /\ created /\ decrypting) =>
          /\ RequestsOf("key") = << >>
          /\ key = None

C6_Witness ==
    /\ pc = "done_ok"
    /\ decrypting
    /\ Len(RequestsOf("seg")) = 2
    /\ Len(results) = 2
    /\ Len(RequestsOf("key")) = 1

\* C7: the key handed to decrypt is byte for byte the body of the key
\* resource.
C7_KeyIsRawBody ==
    IsSome(key) => Unwrap(key) = Unwrap(key_body)

-----------------------------------------------------------------------------
(* The manifest's lines and substring containment, stated directly *)

NewlineAt(text) == {i \in 1..Len(text) : SubSeq(text, i, i) = "\n"}

\* position of the k-th newline; 0 for k = 0, Len(text) + 1 past the last one
NthNewline(text, k) ==
    IF k = 0 THEN 0
    ELSE IF k > Cardinality(NewlineAt(text)) THEN Len(text) + 1
    ELSE CHOOSE i \in NewlineAt(text) :
            Cardinality({j \in NewlineAt(text) : j <= i}) = k

NewlineSeparated(text) ==
    [k \in 1..(Cardinality(NewlineAt(text)) + 1) |->
        SubSeq(text, NthNewline(text, k - 1) + 1, NthNewline(text, k) - 1)]

IsSubstring(s, p) ==
    \E i \in 0..(Len(s) - Len(p)) : SubSeq(s, i + 1, i + Len(p)) = p

\* C8: after analyze, uri_list is the manifest's newline-separated lines that
\* contain the suffix as a substring, in manifest order, one entry per such
\* line, directive lines included.
C8_SegmentRefsAreMatchingLines ==
    pc = "down_load" =>
        uri_list = SelectSeq(NewlineSeparated(m3u8_value),
                             LAMBDA l : IsSubstring(l, suffix))

C8_Witness ==
    /\ pc = "down_load"
    /\ suffix = DefaultSuffix
    /\ m3u8_value = Join(<<KeyLineWithSuffix, "#EXTINF:9.5,", "a.ts">>)
    /\ uri_list = <<KeyLineWithSuffix, "a.ts">>

\* positions of the #EXT-X-KEY: lines
KeyLinesAt == {i \in 1..Len(lines) : StartsWith(lines[i], EXT_X_KEY)}

LastKeyLine == lines[CHOOSE i \in KeyLinesAt : \A j \in KeyLinesAt : j <= i]

\* the attribute (METHOD= or URI=) starts one of the line's comma-separated fields
HasAttribute(line, attr) ==
    LET fields == Split(SubSeq(line, Len(EXT_X_KEY) + 1, Len(line)), ",")
    IN  \E i \in 1..Len(fields) : StartsWith(fields[i], attr)

\* C9: with several #EXT-X-KEY: lines the key descriptor after analyze is the
\* mapping of the last of them alone: it has only the entries that line
\* gives, with that line's values.
C9_LastKeyLineWins ==
    (pc = "down_load" /\ Cardinality(KeyLinesAt) >= 2) =>
        /\ ext.key = Some(key_of_line(LastKeyLine))
        /\ \A attr \in DOMAIN Unwrap(ext.key) : HasAttribute(LastKeyLine, attr)

C9_Witness ==
    /\ pc = "down_load"
    /\ lines = <<KeyLineWithSuffix, "a.ts", KeyLineMethodOnly>>
    /\ ext.key = Some(Insert(EmptyMap, METHOD, "NONE"))

\* the text that follows the directive prefix the line starts with
Remainder(line, prefix) == SubSeq(line, Len(prefix) + 1, Len(line))

\* a numeric directive line whose remainder is not a base-10 unsigned integer
\* in range
Malformed(line) ==
    \E prefix \in {EXT_X_VERSION, EXT_X_TARGETDURATION, EXT_X_MEDIA_SEQUENCE} :
        /\ StartsWith(line, prefix)
        /\ ~IsSome(ParseU32(Remainder(line, prefix)))

\* C10: a manifest with a malformed numeric directive line never gets past
\* analyze: the run panics there, the output file is not created and no key
\* or segment request is issued.
C10_MalformedNumberAborts ==
    (\E i \in 1..Len(lines) : Malformed(lines[i])) =>
        /\ pc \in {"analyze", "panic"}
        /\ pc = "panic" => fail = "parse"
        /\ ~created
        /\ issued = << >>

-----------------------------------------------------------------------------
(* Key attributes, stated directly *)

\* the text that follows the attribute name the field starts with
AttributeText(field, name) == SubSeq(field, Len(name) + 1, Len(field))

\* a double quote at the start and one at the end taken off
StripQuotes(t) ==
    LET a == IF Len(t) >= 1 /\ SubSeq(t, 1, 1) = "\"" THEN Tail(t) ELSE t
    IN  IF Len(a) >= 1 /\ SubSeq(a, Len(a), Len(a)) = "\""
        THEN SubSeq(a, 1, Len(a) - 1)
        ELSE a

RECURSIVE AttributesOf(_, _)
AttributesOf(map, fields) ==
    IF fields = << >> THEN map
    ELSE LET f == Head(fields)
             m1 == IF StartsWith(f, METHOD)
                   THEN Insert(map, METHOD, AttributeText(f, METHOD))
                   ELSE IF StartsWith(f, URL)
                   THEN Insert(map, URL, StripQuotes(AttributeText(f, URL)))
                   ELSE map
         IN  AttributesOf(m1, Tail(fields))

\* C11: right after a #EXT-X-KEY: line was processed the key mapping is the
\* one its comma-separated fields give: METHOD is the text following METHOD=
\* of the field starting with it, URI the text following URI= with the
\* surrounding double quotes stripped; other fields give nothing.
C11_KeyMappingOfLine ==
    (pc = "analyze" /\ line_no >= 1 /\ StartsWith(lines[line_no], EXT_X_KEY)) =>
        ext.key = Some(AttributesOf(EmptyMap,
                         Split(Remainder(lines[line_no], EXT_X_KEY), ",")))

-----------------------------------------------------------------------------
IsSuccess(status) == status >= 200 /\ status <= 299

aborted == pc \in {"panic", "done_err"}

\* C12: a response with a non-success status is a fetch failure: once segment
\* i got one the run has aborted with nothing of position i written, and once
\* the key got one the run has aborted with no key material taken from it.
C12_BadStatusIsFailure ==
    /\ \A i \in 1..Len(statuses) :
          ~IsSuccess(statuses[i]) =>
              /\ aborted
              /\ fail # "none"
              /\ Len(written) < i
    /\ (IsSome(key_status) /\ ~IsSuccess(Unwrap(key_status))) =>
          /\ aborted
          /\ fail # "none"
          /\ key = None

-----------------------------------------------------------------------------
Plains == {PlainShort, PlainLong}

\* C14: decrypt returns the whole plaintext: for a segment body that is the
\* encryption of P under the key read and the zero IV, whatever the length of
\* P, the decrypt output is P.
C14_DecryptRoundTrip ==
    \A i \in 1..Len(results) :
        \A p \in Plains :
            (/\ IsSome(key)
             /\ Len(Unwrap(key)) = KeyLen
             /\ bodies[i] = Encrypt(Unwrap(key), IV, p)) => results[i] = p

-----------------------------------------------------------------------------
DirectiveFields ==
    {"version", "target_duration", "play_list_type", "media_sequence", "key"}

DirectivePrefixes ==
    {EXT_X_VERSION, EXT_X_TARGETDURATION, EXT_X_PLAYLIST_TYPE,
     EXT_X_MEDIA_SEQUENCE, EXT_X_KEY}

\* C15: a step that processes one manifest line changes at most one of the
\* five directive fields, none of them when the line starts with none of the
\* five prefixes, and leaves uri_list alone or appends the line to it.
C15_OneFieldPerLine ==
    [][(pc = "analyze" /\ line_no' = line_no + 1) =>
          LET line == lines[line_no + 1]
              changed == {f \in DirectiveFields : ext'[f] # ext[f]}
          IN  /\ Cardinality(changed) <= 1
              /\ (\A q \in DirectivePrefixes : ~StartsWith(line, q)) => changed = {}
              /\ \/ ext'.uri_list = ext.uri_list
                 \/ ext'.uri_list = Some(Append(Unwrap(ext.uri_list), line))]_vars

C15_Witness ==
    /\ pc = "analyze"
    /\ suffix = DefaultSuffix
    /\ lines = <<VersionLineMax, KeyLineWithSuffix, "#EXTINF:9.5,">>
    /\ line_no = 3
    /\ IsSome(ext.version)
    /\ IsSome(ext.key)
    /\ ext.uri_list = Some(<<KeyLineWithSuffix>>)
    /\ ext.target_duration = None

\* C16: a key descriptor of a parsed directive set holds both a METHOD and a
\* URI entry, and the pipeline's gate takes one of its branches instead of
\* crashing on a missing entry.
C16_KeyHasBothEntries ==
    (parsed /\ IsSome(ext.key)) =>
        /\ {METHOD, URL} \subseteq DOMAIN Unwrap(ext.key)
        /\ gate(ext) \in {"as_is", "decrypt"}
        /\ fail # "gate"

\* C17: no request is issued before the output file was created and
\* truncated; from then on the file is the processed content of the
\* segments written so far, a prefix of the ordered processed segments; a
\* run that ends on the key fetch or on the first segment leaves it empty.
C17_CreatedFirst ==
    /\ issued # << >> => created
    /\ (parsed /\ fail # "create" /\ pc # "down_load") =>
          /\ created
          /\ written = UpTo(Len(written))
          /\ Len(written) <= Len(processed)
          /\ disk = Concat(SubSeq(processed, 1, Len(written)))
    /\ (fail = "key_fetch" \/ (fail \in {"seg_fetch", "decrypt"} /\ count = 1)) =>
          disk = << >>

C17_Witness ==
    /\ fail = "key_fetch"
    /\ m3u8_value = Join(<<KeyLine, "a.ts">>)
    /\ created
    /\ disk = << >>

====
